---- MODULE Spec2Model ----
(***************************************************************************)
(* A model of src/api/bot.py: the sliding-window rate limiter, the cached  *)
(* and retried quote fetch, the recipient address resolver, the intent     *)
(* and entity extractor and the per-user dialogue state machine.           *)
(*                                                                         *)
(* Strings the program inspects (message texts, callback data, token       *)
(* symbols, network names, cached rates) are sequences of one-character    *)
(* strings, so that upper(), lower(), split(), float() and str() are       *)
(* computed character by character.  Amounts and prices are fixed-point    *)
(* numbers in hundredths; fiat values are in ten-thousandths.              *)
(***************************************************************************)
EXTENDS Integers, Sequences, FiniteSets, TLC

VARIABLES
    now,                    \* datetime.now().timestamp(), in seconds
    rate_keys,              \* redis sorted sets "rate_limit:{user}:{ip}"
    rate_cache,             \* redis string keys "rate:{token}" with expiry
    conversation_context,   \* the module-level dict of user sessions
    turn,                   \* the handle_conversation call suspended in a quote fetch
    quoted,                 \* per token, the last price fetch_rate_with_retry returned
    asked,                  \* per key, the rate_limit calls of the last 60 seconds
    admission,              \* what the last rate_limit call returned
    reply                   \* what the last handler invocation sent back

vars == <<now, rate_keys, rate_cache, conversation_context, turn, quoted,
          asked, admission, reply>>

----------------------------------------------------------------------------
(* Bounds of the model *)

\* sessions stop taking turns once their history holds this many entries
MaxHist == 4
\* the clock of the dialogue specification stops here
MaxClock == 3
\* the clock of the rate limiter specification stops here
MaxRateClock == 70
\* seconds between two clock readings of the rate limiter specification
RateTick == 5
\* the clock of the quote specification stops here
MaxQuoteClock == 62
\* seconds between two clock readings of the quote specification
QuoteTick == 30

Users == {1}

----------------------------------------------------------------------------
(* Program constants *)

WINDOW == 60            \* rate_limit: now - 60
THRESHOLD == 10         \* rate_limit: len(requests) < 10
CACHE_TTL == 60         \* redis_client.setex(cache_key, 60, rate)
RETRIES == 3            \* fetch_rate_with_retry(token, retries = 3)
RETRY_DELAY == 1        \* asyncio.sleep(1)
FEE == 1500             \* 0.15, in ten-thousandths
HIGH_VALUE == 10000     \* notify_admin: amount > 100, in hundredths

None == <<>>            \* Python's None for a string-valued slot

USDT == <<"U", "S", "D", "T">>
TON == <<"T", "O", "N">>
XRP == <<"X", "R", "P">>

SUPPORTED_TOKENS ==
    {<<"B", "T", "C">>, <<"E", "T", "H">>, USDT, TON, <<"S", "O", "L">>, <<"B", "N", "B">>, <<"M", "A", "T", "I", "C">>, <<"U", "S", "D", "C">>,
     <<"T", "R", "X">>, <<"S", "H", "I", "B">>, XRP, <<"A", "D", "A">>, <<"D", "O", "T">>, <<"A", "V", "A", "X">>, <<"D", "O", "G", "E">>}

SYNONYMS == <<
    [intent |-> "buy", synonyms |-> {
        <<"p", "u", "r", "c", "h", "a", "s", "e">>,
        <<"g", "r", "a", "b">>,
        <<"g", "e", "t">>,
        <<"w", "a", "n", "t">>,
        <<"n", "e", "e", "d">>,
        <<"a", "c", "q", "u", "i", "r", "e">>,
        <<"b", "u", "y", "i", "n", "g">>}],
    [intent |-> "sell", synonyms |-> {
        <<"s", "e", "l", "l">>,
        <<"c", "a", "s", "h">>,
        <<"u", "n", "l", "o", "a", "d">>,
        <<"o", "f", "f", "l", "o", "a", "d">>,
        <<"t", "r", "a", "d", "e">>,
        <<"d", "i", "s", "p", "o", "s", "e">>,
        <<"s", "e", "l", "l", "i", "n", "g">>,
        <<"c", "a", "s", "h", " ", "o", "u", "t">>}],
    [intent |-> "connect_wallet", synonyms |-> {
        <<"c", "o", "n", "n", "e", "c", "t">>,
        <<"l", "i", "n", "k">>,
        <<"s", "e", "t", "u", "p">>,
        <<"a", "t", "t", "a", "c", "h">>}],
    [intent |-> "balance", synonyms |-> {
        <<"c", "h", "e", "c", "k">>,
        <<"h", "o", "w", " ", "m", "u", "c", "h">>,
        <<"s", "h", "o", "w">>,
        <<"w", "h", "a", "t", "'", "s">>,
        <<"f", "u", "n", "d", "s">>,
        <<"m", "o", "n", "e", "y">>}],
    [intent |-> "help", synonyms |-> {
        <<"s", "u", "p", "p", "o", "r", "t">>,
        <<"g", "u", "i", "d", "e">>,
        <<"w", "h", "a", "t", " ", "c", "a", "n">>,
        <<"h", "o", "w", " ", "t", "o">>,
        <<"a", "s", "s", "i", "s", "t">>}],
    [intent |-> "price", synonyms |-> {
        <<"r", "a", "t", "e">>,
        <<"v", "a", "l", "u", "e">>,
        <<"c", "o", "s", "t">>,
        <<"w", "o", "r", "t", "h">>,
        <<"h", "o", "w", " ", "m", "u", "c", "h", " ", "i", "s">>}],
    [intent |-> "chart", synonyms |-> {
        <<"g", "r", "a", "p", "h">>,
        <<"t", "r", "e", "n", "d">>,
        <<"s", "h", "o", "w", " ", "m", "e">>,
        <<"v", "i", "s", "u", "a", "l", "i", "z", "e">>}],
    [intent |-> "greeting", synonyms |-> {
        <<"h", "i">>,
        <<"h", "e", "l", "l", "o">>,
        <<"h", "e", "y">>,
        <<"g", "r", "e", "e", "t", "i", "n", "g", "s">>,
        <<"w", "h", "a", "t", "'", "s", " ", "u", "p">>}],
    [intent |-> "thanks", synonyms |-> {
        <<"t", "h", "a", "n", "k", "s">>,
        <<"t", "h", "a", "n", "k", " ", "y", "o", "u">>,
        <<"a", "p", "p", "r", "e", "c", "i", "a", "t", "e">>,
        <<"g", "r", "e", "a", "t">>}],
    [intent |-> "exit", synonyms |-> {
        <<"b", "y", "e">>,
        <<"e", "x", "i", "t">>,
        <<"q", "u", "i", "t">>,
        <<"d", "o", "n", "e">>,
        <<"l", "a", "t", "e", "r">>}],
    [intent |-> "about", synonyms |-> {
        <<"h", "o", "w", " ", "a", "r", "e", " ", "y", "o", "u">>,
        <<"w", "h", "a", "t", " ", "a", "r", "e", " ", "y", "o", "u">>,
        <<"w", "h", "o", " ", "a", "r", "e", " ", "y", "o", "u">>}],
    [intent |-> "time", synonyms |-> {
        <<"w", "h", "a", "t", " ", "t", "i", "m", "e">>,
        <<"c", "u", "r", "r", "e", "n", "t", " ", "t", "i", "m", "e">>,
        <<"t", "i", "m", "e", " ", "n", "o", "w">>}],
    [intent |-> "cancel", synonyms |-> {
        <<"c", "a", "n", "c", "e", "l">>,
        <<"s", "t", "o", "p">>,
        <<"a", "b", "o", "r", "t">>,
        <<"n", "e", "v", "e", "r", "m", "i", "n", "d">>}]
    >>

----------------------------------------------------------------------------
(* Strings: str.lower, str.upper, str.strip, str.split, float, str(float) *)

LowerLetters == <<"a", "b", "c", "d", "e", "f", "g", "h", "i", "j", "k", "l", "m",
                  "n", "o", "p", "q", "r", "s", "t", "u", "v", "w", "x", "y", "z">>

UpperLetters == <<"A", "B", "C", "D", "E", "F", "G", "H", "I", "J", "K", "L", "M",
                  "N", "O", "P", "Q", "R", "S", "T", "U", "V", "W", "X", "Y", "Z">>

DigitChars == <<"0", "1", "2", "3", "4", "5", "6", "7", "8", "9">>

IndexOf(c, alphabet) ==
    IF \E i \in DOMAIN alphabet : alphabet[i] = c
    THEN CHOOSE i \in DOMAIN alphabet : alphabet[i] = c
    ELSE 0

StrUpper(s) ==
    [i \in DOMAIN s |->
        IF IndexOf(s[i], LowerLetters) > 0
        THEN UpperLetters[IndexOf(s[i], LowerLetters)] ELSE s[i]]

StrLower(s) ==
    [i \in DOMAIN s |->
        IF IndexOf(s[i], UpperLetters) > 0
        THEN LowerLetters[IndexOf(s[i], UpperLetters)] ELSE s[i]]

RECURSIVE StripLeft(_)
StripLeft(s) ==
    IF s # <<>> /\ Head(s) = " " THEN StripLeft(Tail(s)) ELSE s

RECURSIVE StripRight(_)
StripRight(s) ==
    IF s # <<>> /\ s[Len(s)] = " " THEN StripRight(SubSeq(s, 1, Len(s) - 1)) ELSE s

StrStrip(s) == StripRight(StripLeft(s))

\* s.split(sep) for a one-character separator: empty fields are kept
RECURSIVE StrSplit(_, _)
StrSplit(s, sep) ==
    IF \A i \in DOMAIN s : s[i] # sep
    THEN <<s>>
    ELSE LET k == CHOOSE i \in DOMAIN s :
                      s[i] = sep /\ \A j \in 1..(i - 1) : s[j] # sep
         IN  <<SubSeq(s, 1, k - 1)>> \o StrSplit(SubSeq(s, k + 1, Len(s)), sep)

StrStartsWith(s, p) == Len(s) >= Len(p) /\ SubSeq(s, 1, Len(p)) = p

IsDigits(s) == s # <<>> /\ \A i \in DOMAIN s : IndexOf(s[i], DigitChars) > 0

RECURSIVE DigitsValue(_)
DigitsValue(s) ==
    IF s = <<>> THEN 0
    ELSE 10 * DigitsValue(SubSeq(s, 1, Len(s) - 1)) + (IndexOf(s[Len(s)], DigitChars) - 1)

RECURSIVE NatDigits(_)
NatDigits(n) ==
    IF n < 10 THEN <<DigitChars[n + 1]>>
    ELSE NatDigits(n \div 10) \o <<DigitChars[(n % 10) + 1]>>

(* Numbers.  kind is "num" (val in hundredths), "nan" (float('nan')) or    *)
(* "none" (Python's None, or a ValueError where the caller asks).          *)
Num(v) == [kind |-> "num", val |-> v]
NaN == [kind |-> "nan", val |-> 0]
NoNumber == [kind |-> "none", val |-> 0]

\* Python truthiness of a float or None: None and 0.0 are false, nan is true
Truthy(x) == x.kind = "nan" \/ (x.kind = "num" /\ x.val # 0)

\* x <= 0 on floats: every comparison with nan is false
LeqZero(x) == x.kind = "num" /\ x.val <= 0

(* float(s) for a stripped s: an optional sign, then digits with an        *)
(* optional point and at most two decimals (the fixed-point resolution),   *)
(* or "nan" in any case.  NoNumber stands for ValueError.                  *)
ParseFloat(s) ==
    LET signed == s # <<>> /\ Head(s) \in {"+", "-"}
        body == IF signed THEN Tail(s) ELSE s
        sign == IF signed /\ Head(s) = "-" THEN -1 ELSE 1
        parts == StrSplit(body, ".")
        whole == parts[1]
        frac == IF Len(parts) = 2 THEN parts[2] ELSE <<>>
        wellFormed ==
            /\ Len(parts) <= 2
            /\ whole = <<>> \/ IsDigits(whole)
            /\ frac = <<>> \/ IsDigits(frac)
            /\ whole # <<>> \/ frac # <<>>
            /\ Len(frac) <= 2
        hundredths ==
            CASE Len(frac) = 0 -> 0
              [] Len(frac) = 1 -> 10 * DigitsValue(frac)
              [] OTHER -> DigitsValue(frac)
    IN  IF StrLower(body) = <<"n", "a", "n">> THEN NaN
        ELSE IF wellFormed THEN Num(sign * (100 * DigitsValue(whole) + hundredths))
        ELSE NoNumber

(* str(x) of a non-negative float, as redis-py stores it: repr gives the   *)
(* shortest digits that read back, "5.0", "1.5", "1.23".                   *)
FloatRepr(v) ==
    LET whole == NatDigits(v \div 100)
        cents == v % 100
        frac == IF cents % 10 = 0 THEN <<DigitChars[(cents \div 10) + 1]>>
                ELSE <<DigitChars[(cents \div 10) + 1], DigitChars[(cents % 10) + 1]>>
    IN  whole \o <<".">> \o frac

(* spaCy's tokenizer on the lower-cased, stripped message.  The messages   *)
(* of this model are words of letters and digits (and signed or decimal    *)
(* numbers) separated by blanks, which the tokenizer splits at the blanks. *)
Tokenize(s) == SelectSeq(StrSplit(s, " "), LAMBDA w : w # <<>>)

RemoveChars(s, cs) == SelectSeq(s, LAMBDA c : c \notin cs)

NUM_WORDS == {<<"z", "e", "r", "o">>, <<"o", "n", "e">>, <<"t", "w", "o">>,
              <<"t", "e", "n">>, <<"h", "u", "n", "d", "r", "e", "d">>}

\* spaCy's English like_num lexical attribute
LikeNum(w) ==
    LET unsigned == IF w # <<>> /\ Head(w) \in {"+", "-", "~"} THEN Tail(w) ELSE w
        plain == RemoveChars(unsigned, {",", "."})
        slash == StrSplit(unsigned, "/")
    IN  \/ IsDigits(plain)
        \/ Len(slash) = 2 /\ IsDigits(slash[1]) /\ IsDigits(slash[2])
        \/ StrLower(unsigned) \in NUM_WORDS

T_buy_100_ton == <<"b", "u", "y", " ", "1", "0", "0", " ", "t", "o", "n">>
T_purchase_2_ton == <<"p", "u", "r", "c", "h", "a", "s", "e", " ", "2", " ", "T", "O", "N">>
T_cancel == <<"c", "a", "n", "c", "e", "l">>
T_sell_50_ton == <<"S", "e", "l", "l", " ", "5", "0", " ", "T", "O", "N">>
T_rate_ton == <<"r", "a", "t", "e", " ", "t", "o", "n">>

W_buy == <<"b", "u", "y">>
W_sell == <<"s", "e", "l", "l">>
P_5_00 == <<"5", ".", "0", "0">>

----------------------------------------------------------------------------
(* Address resolver *)

DEFAULT_RECIPIENT == "default_recipient"
FALLBACK_XRP_TAG == "501173063"
NoTag == ""             \* Python's None for the tag
NoAddress == ""         \* a response without "address"
LIVE_ADDRESS == "live_address"
LIVE_TAG == "live_tag"

Underscore == <<"_">>

\* FALLBACK_ADDRESSES.get(key, "default_recipient")
FallbackAddress(key) ==
    CASE key = TON -> "UQCMbQomO3XD1FSt7pyfjqj2jBRzyg23myKDtCky_CedKpEH"
      [] key = <<"B", "T", "C">> -> "15v6V97KZh3NDgPWjwbQBp4PWPRgf7uQRf"
      [] key = <<"E", "T", "H">> -> "0x4fb9055c71a3cafd7c6d30686cfe55282a11ac5e"
      [] key = USDT \o Underscore \o <<"E", "R", "C", "2", "0">> ->
             "0x4fb9055c71a3cafd7c6d30686cfe55282a11ac5e"
      [] key = USDT \o Underscore \o TON ->
             "UQCMbQomO3XD1FSt7pyfjqj2jBRzyg23myKDtCky_CedKpEH"
      [] key = USDT \o Underscore \o <<"T", "R", "C", "2", "0">> ->
             "TBNQW6J9hkoamhs7oYXVmGf3LBKbs1ZiUd"
      [] key = <<"S", "O", "L">> -> "CdkLzLG3uTwA7HqNGZ3CC4fTc4EwjGJWaTGNjmTRpu7Z"
      [] key = <<"B", "N", "B">> -> "0x4fb9055c71a3cafd7c6d30686cfe55282a11ac5e"
      [] key = <<"M", "A", "T", "I", "C">> -> "0x4fb9055c71a3cafd7c6d30686cfe55282a11ac5e"
      [] key = <<"U", "S", "D", "C">> -> "0x4fb9055c71a3cafd7c6d30686cfe55282a11ac5e"
      [] key = <<"T", "R", "X">> -> "TBNQW6J9hkoamhs7oYXVmGf3LBKbs1ZiUd"
      [] key = <<"S", "H", "I", "B">> -> "0x4fb9055c71a3cafd7c6d30686cfe55282a11ac5e"
      [] key = XRP -> "rJn2zAPdFA193sixJwuFixRkYDUtx3apQh"
      [] key = <<"A", "D", "A">> -> "addr1v8hpde5xvxux8vn5x4fnr94qvd7e95pl0lr7770w3kds60cu52cc7"
      [] key = <<"D", "O", "T">> -> "15tcNR3ypYpYSFdqxzoPJVhdfHq221D6qesSpRc5pdmhiG39"
      [] key = <<"A", "V", "A", "X">> -> "0x4fb9055c71a3cafd7c6d30686cfe55282a11ac5e"
      [] key = <<"D", "O", "G", "E">> -> "DAUpMXucfetrJhzrW9LRFxTo22BzqnVg8E"
      [] OTHER -> DEFAULT_RECIPIENT

\* the keys of FALLBACK_ADDRESSES
FallbackKeys ==
    (SUPPORTED_TOKENS \ {USDT})
    \cup {USDT \o Underscore \o n : n \in {<<"E", "R", "C", "2", "0">>, TON,
                                           <<"T", "R", "C", "2", "0">>}}

\* what the recipient registry can answer: status "error" is any exception
\* (network error, HTTP error status, a body that is not JSON)
RecipientResponses ==
    {[status |-> "error", address |-> NoAddress, tag |-> NoTag],
     [status |-> "ok", address |-> NoAddress, tag |-> NoTag],
     [status |-> "ok", address |-> LIVE_ADDRESS, tag |-> NoTag],
     [status |-> "ok", address |-> LIVE_ADDRESS, tag |-> LIVE_TAG]}

RecipientKey(token, network) ==
    IF token = USDT /\ network # None THEN USDT \o Underscore \o network ELSE token

\* fetch_recipient_address with the fallback looked up under the token alone
fetch_recipient_address_by_token(token, network, response) ==
    LET fallbackTag == IF token = XRP THEN FALLBACK_XRP_TAG ELSE NoTag
        tag == IF token = XRP THEN response.tag ELSE NoTag
    IN  IF response.status = "ok"
        THEN [address |-> IF response.address # NoAddress THEN response.address
                          ELSE FallbackAddress(token),
              tag |-> IF tag # NoTag THEN tag ELSE fallbackTag]
        ELSE [address |-> FallbackAddress(token), tag |-> fallbackTag]

fetch_recipient_address(token, network, response) ==
    LET key == RecipientKey(token, network)
        fallbackTag == IF token = XRP THEN FALLBACK_XRP_TAG ELSE NoTag
        tag == IF token = XRP THEN response.tag ELSE NoTag
    IN  IF response.status = "ok"
        THEN [address |-> IF response.address # NoAddress THEN response.address
                          ELSE FallbackAddress(key),
              tag |-> IF tag # NoTag THEN tag ELSE fallbackTag]
        ELSE [address |-> FallbackAddress(key), tag |-> fallbackTag]

----------------------------------------------------------------------------
(* Intent and entity extractor *)

NoEntities == [token |-> None, amount |-> NoNumber, network |-> None]


\* SUPPORTED_TOKENS_LOWER: k.lower() -> k
InSupportedLower(w) == \E k \in SUPPORTED_TOKENS : StrLower(k) = w

SupportedLower(w) == CHOOSE k \in SUPPORTED_TOKENS : StrLower(k) = w

\* one iteration of "for token in doc"
EntityStep(entities, w) ==
    LET parsed == ParseFloat(w)
        e1 == IF LikeNum(w) THEN [entities EXCEPT !.amount = parsed] ELSE entities
        e2 == IF InSupportedLower(w) THEN [e1 EXCEPT !.token = SupportedLower(w)] ELSE e1
        e3 == IF w \in {<<"e", "r", "c", "2", "0">>, <<"t", "r", "c", "2", "0">>, <<"t", "o", "n">>} /\ e2.token = USDT
              THEN [e2 EXCEPT !.network = StrUpper(w)] ELSE e2
    IN  IF LikeNum(w) /\ parsed.kind = "none"
        THEN entities           \* except ValueError: continue
        ELSE e3

RECURSIVE ExtractEntities(_, _)
ExtractEntities(entities, doc) ==
    IF doc = <<>> THEN entities
    ELSE ExtractEntities(EntityStep(entities, Head(doc)), Tail(doc))

IntentMatches(i, doc) == \E k \in DOMAIN doc : doc[k] \in SYNONYMS[i].synonyms

\* DetectIntent by the first word of the text that is a synonym of any intent
DetectIntentByPosition(doc) ==
    IF \E i \in DOMAIN SYNONYMS : IntentMatches(i, doc)
    THEN LET k == CHOOSE k \in DOMAIN doc :
                      /\ \E i \in DOMAIN SYNONYMS : doc[k] \in SYNONYMS[i].synonyms
                      /\ \A j \in 1..(k - 1) :
                             \A i \in DOMAIN SYNONYMS : doc[j] \notin SYNONYMS[i].synonyms
         IN  SYNONYMS[CHOOSE i \in DOMAIN SYNONYMS : doc[k] \in SYNONYMS[i].synonyms].intent
    ELSE "conversation"

DetectIntent(doc) ==
    IF \E i \in DOMAIN SYNONYMS : IntentMatches(i, doc)
    THEN SYNONYMS[CHOOSE i \in DOMAIN SYNONYMS :
                      IntentMatches(i, doc) /\ \A j \in 1..(i - 1) : ~IntentMatches(j, doc)].intent
    ELSE "conversation"

detect_intent_and_entities(message) ==
    LET doc == Tokenize(StrLower(StrStrip(message)))
    IN  [intent |-> DetectIntent(doc), entities |-> ExtractEntities(NoEntities, doc)]


----------------------------------------------------------------------------
(* Inputs *)

\* the texts sent to handle_conversation
Texts ==
    {T_buy_100_ton,
     T_purchase_2_ton,
     T_sell_50_ton,
     <<"s", "e", "l", "l">>,
     <<"s", "e", "l", "l", " ", "t", "o", "n">>,
     <<"t", "o", "n">>,
     <<"u", "s", "d", "t">>,
     <<"f", "o", "o">>,
     <<"5", "0">>,
     <<"0">>,
     <<"n", "a", "n">>,
     T_cancel,
     <<"t", "r", "c", "2", "0">>,
     T_rate_ton,
     <<"h", "i">>,
     <<"c", "h", "e", "c", "k">>}

\* the callback data of the buttons pressed
CallbackData ==
    {<<"q", "u", "i", "c", "k", "_", "b", "u", "y">>,
     <<"q", "u", "i", "c", "k", "_", "s", "e", "l", "l">>,
     <<"q", "u", "i", "c", "k", "_", "b", "a", "l", "a", "n", "c", "e">>,
     <<"q", "u", "i", "c", "k", "_", "b", "u", "y", "_", "u", "s", "d", "t">>,
     <<"m", "o", "r", "e", "_", "s", "e", "l", "l">>,
     <<"n", "e", "t", "w", "o", "r", "k", "_", "e", "r", "c", "2", "0", "_", "b", "u", "y">>,
     <<"c", "a", "n", "c", "e", "l", "_", "a", "c", "t", "i", "o", "n">>}

----------------------------------------------------------------------------
(* Sessions *)

NoData == <<>>          \* the empty dict {}

DefaultContext == [state |-> "None", data |-> NoData, history |-> <<>>]

Context(state, data, history) == [state |-> state, data |-> data, history |-> history]

\* conversation_context.get(user_id, {"state": None, "data": {}, "history": []})
get_context(cc, user_id) ==
    IF user_id \in DOMAIN cc THEN cc[user_id] ELSE DefaultContext

\* update_context writing the context into every stored session
update_context_shared(cc, user_id, context) ==
    [u \in DOMAIN cc \cup {user_id} |-> context]

\* conversation_context[user_id] = context
update_context(cc, user_id, context) ==
    [u \in DOMAIN cc \cup {user_id} |-> IF u = user_id THEN context ELSE cc[u]]

\* data[key] = value
DictSet(data, key, value) ==
    [k \in DOMAIN data \cup {key} |-> IF k = key THEN value ELSE data[k]]

\* data.get(key, default)
DictGet(data, key, default) == IF key \in DOMAIN data THEN data[key] ELSE default

Dict1(k1, v1) == DictSet(NoData, k1, v1)
Dict2(k1, v1, k2, v2) == DictSet(Dict1(k1, v1), k2, v2)
Dict3(k1, v1, k2, v2, k3, v3) == DictSet(Dict2(k1, v1, k2, v2), k3, v3)

----------------------------------------------------------------------------
(* Replies.  kind names the message returned; an order summary carries the *)
(* figures it shows and the recipient of its signing link.                 *)

NoFiat == [kind |-> "none", val |-> 0]

\* the registry was not asked in this turn
NoLookup == [status |-> "none", address |-> NoAddress, tag |-> NoTag]

(* A reply: its kind and what its text shows (token, network, amount,      *)
(* rate, fiat value, recipient and tag), with what the turn did besides:   *)
(* lookup is the recipient registry's answer and notify the admin post.    *)
Plain(kind) ==
    [kind |-> kind, token |-> None, network |-> None, amount |-> NoNumber,
     rate |-> NoNumber, fiat |-> NoFiat, recipient |-> NoAddress,
     tag |-> NoTag, lookup |-> NoLookup, notify |-> "none"]


\* FiatAmount with the fee added for a sell too
FiatAmountFeeAdded(action, amount, rate) ==
    IF amount.kind = "nan" THEN NaN ELSE Num(amount.val * rate + FEE)

\* amount * rate + 0.15 or amount * rate - 0.15, in ten-thousandths
FiatAmount(action, amount, rate) ==
    IF amount.kind = "nan" THEN NaN
    ELSE Num(amount.val * rate + (IF action = "buy" THEN FEE ELSE -FEE))

\* notify_admin: the post is attempted when amount > 100; a failure is logged
NotifyAdmin(amount, postOk) ==
    IF amount.kind = "num" /\ amount.val > HIGH_VALUE
    THEN (IF postOk THEN "sent" ELSE "failed")
    ELSE "none"

\* Summary with a failed admin post leaving the call as an exception
SummaryPostRaises(action, token, network, amount, rate, recipient, postOk) ==
    IF action = "sell" /\ NotifyAdmin(amount, postOk) = "failed"
    THEN [Plain("exception") EXCEPT !.notify = "failed"]
    ELSE [kind |-> "order_summary", token |-> token, network |-> network,
          amount |-> amount, rate |-> Num(rate), fiat |-> FiatAmount(action, amount, rate),
          recipient |-> recipient.address, tag |-> recipient.tag, lookup |-> NoLookup,
          notify |-> IF action = "sell" THEN NotifyAdmin(amount, postOk) ELSE "none"]

Summary(action, token, network, amount, rate, recipient, postOk) ==
    [kind |-> "order_summary", token |-> token, network |-> network, amount |-> amount,
     rate |-> Num(rate), fiat |-> FiatAmount(action, amount, rate),
     recipient |-> recipient.address, tag |-> recipient.tag, lookup |-> NoLookup,
     notify |-> IF action = "sell" THEN NotifyAdmin(amount, postOk) ELSE "none"]

----------------------------------------------------------------------------
(* handle_conversation, up to its first suspension.  The result says what  *)
(* the call did: next is "done" (it returned a reply), "raise" (an         *)
(* exception left it) or "fetch" (it awaits fetch_rate_with_retry);        *)
(* update says whether update_context was called, with context; data is    *)
(* the local dict data as the call left it (it is the session's own dict   *)
(* when the session is stored, so item assignments show in the session).   *)

Done(kind, data) ==
    [next |-> "done", update |-> FALSE, context |-> DefaultContext, data |-> data,
     reply |-> Plain(kind), cont |-> "none", token |-> None, amount |-> NoNumber,
     network |-> None]

Updated(kind, data, context) ==
    [Done(kind, data) EXCEPT !.update = TRUE, !.context = context]

Raised(data) == [Done("none", data) EXCEPT !.next = "raise"]

RaisedAfterUpdate(data, context) ==
    [Done("none", data) EXCEPT !.next = "raise", !.update = TRUE, !.context = context]

Fetch(cont, data, token, amount, network) ==
    [Done("none", data) EXCEPT !.next = "fetch", !.cont = cont, !.token = token,
                                !.amount = amount, !.network = network]

\* AwaitingToken with data["token"] = token moved above the membership test
AwaitingTokenStoredFirst(action, text, data, history) ==
    LET token == StrUpper(text)
        data1 == DictSet(data, "token", token)
    IN  IF token \notin SUPPORTED_TOKENS THEN Done("unknown_token", data1)
        ELSE IF token = USDT
        THEN Updated("ask_network", data1,
                     Context("awaiting_network_" \o action, data1, Append(history, action)))
        ELSE Updated("ask_amount", data1,
                     Context("awaiting_amount_" \o action, data1, Append(history, action)))

\* state == "awaiting_token_buy" / "awaiting_token_sell"
AwaitingToken(action, text, data, history) ==
    LET token == StrUpper(text)
        data1 == DictSet(data, "token", token)
    IN  IF token \notin SUPPORTED_TOKENS THEN Done("unknown_token", data)
        ELSE IF token = USDT
        THEN Updated("ask_network", data1,
                     Context("awaiting_network_" \o action, data1, Append(history, action)))
        ELSE Updated("ask_amount", data1,
                     Context("awaiting_amount_" \o action, data1, Append(history, action)))

\* state == "awaiting_network_buy" / "awaiting_network_sell"
AwaitingNetwork(action, text, data, history) ==
    LET network == DictGet(data, "network", StrUpper(text))
        data1 == DictSet(data, "network", network)
    IN  Updated("ask_amount", data1,
                Context("awaiting_amount_" \o action, data1,
                        Append(history, action \o "_network")))

\* state == "awaiting_amount_buy" / "awaiting_amount_sell", up to the await;
\* amount is float(text), NoNumber when float raises ValueError
AwaitingAmount(action, amount, data, history) ==
    LET data1 == DictSet(data, "amount", amount)
    IN  IF amount.kind = "none" THEN Done("not_a_number", data)
        ELSE IF LeqZero(amount) THEN Done("not_positive", data)
        ELSE IF "token" \notin DOMAIN data1 THEN Raised(data1)     \* KeyError
        ELSE Fetch("amount_" \o action, data1, data1["token"], amount, None)

\* Confirm storing the slots of the order in the idle session
ConfirmKeepingSlots(action, data, history) ==
    Updated("launched", data,
            Context("None", data, Append(history, action \o "_confirmed")))

\* state == "confirm_buy" / "confirm_sell"
Confirm(action, data, history) ==
    Updated("launched", data,
            Context("None", NoData, Append(history, action \o "_confirmed")))

\* intent == "buy" / "sell", up to the await
Trade(action, entities, data, history) ==
    LET token == entities.token
        amount == entities.amount
    IN  IF token # None /\ Truthy(amount)
        THEN Fetch("direct_" \o action, data, token, amount, entities.network)
        ELSE IF token # None
        THEN IF token = USDT
             THEN Updated("ask_network", data,
                          Context("awaiting_network_" \o action, Dict1("token", token),
                                  Append(history, action)))
             ELSE Updated("ask_amount", data,
                          Context("awaiting_amount_" \o action, Dict1("token", token),
                                  Append(history, action)))
        ELSE Updated("pick_token", data,
                     Context("awaiting_token_" \o action, data, Append(history, action)))

\* detect_intent_and_entities on the messages of the model, computed once
Extracted == [message \in Texts |-> detect_intent_and_entities(message)]


\* Fallback keeping the session's data when it asks for the amount to sell
FallbackKeepingData(entities, data, history) ==
    LET past_intents == SelectSeq(history, LAMBDA h : h \notin {"greeting", "thanks", "exit", "conversation", "cancel"})
        last == IF Len(past_intents) <= 3 THEN past_intents
                ELSE SubSeq(past_intents, Len(past_intents) - 2, Len(past_intents))
    IN  IF past_intents # <<>> /\ (\E i \in DOMAIN last : last[i] = "sell")
           /\ entities.token # None
        THEN Updated("sell_more", data,
                     Context("awaiting_amount_sell", data, Append(history, "sell")))
        ELSE Updated("not_sure", data,
                     Context("None", data, Append(history, "conversation")))

\* the code after the intent branches
Fallback(entities, data, history) ==
    LET past_intents == SelectSeq(history, LAMBDA h : h \notin {"greeting", "thanks", "exit", "conversation", "cancel"})
        \* past_intents[-3:]
        last == IF Len(past_intents) <= 3 THEN past_intents
                ELSE SubSeq(past_intents, Len(past_intents) - 2, Len(past_intents))
    IN  IF past_intents # <<>> /\ (\E i \in DOMAIN last : last[i] = "sell")
           /\ entities.token # None
        THEN Updated("sell_more", data,
                     Context("awaiting_amount_sell", Dict1("token", entities.token),
                             Append(history, "sell")))
        ELSE Updated("not_sure", data,
                     Context("None", data, Append(history, "conversation")))

Keep(kind, intent, data, history) ==
    Updated(kind, data, Context("None", data, Append(history, intent)))

\* the branches on the intent that detect_intent_and_entities(text) returned
Intent(intent, entities, data, history) ==
    CASE intent \in {"buy", "sell"} -> Trade(intent, entities, data, history)
      [] intent = "connect_wallet" -> Keep("connect_wallet", intent, data, history)
      [] intent = "balance" -> Raised(data)     \* fetch_ton_balance is not defined
      [] intent = "price" ->
             IF entities.token # None
             THEN Fetch("price", data, entities.token, NoNumber, None)
             ELSE Done("which_price", data)
      [] intent = "chart" ->
             IF entities.token # None THEN Keep("chart", intent, data, history)
             ELSE Done("which_chart", data)
      [] intent = "help" -> Keep("help", intent, data, history)
      \* random is not imported: random.choice raises after update_context
      [] intent \in {"greeting", "thanks"} ->
             RaisedAfterUpdate(data, Context("None", data, Append(history, intent)))
      [] intent = "exit" ->
             RaisedAfterUpdate(data, Context("None", NoData, Append(history, intent)))
      [] intent \in {"about", "time"} -> Keep(intent, intent, data, history)
      [] intent = "cancel" ->
             Updated("canceled", data,
                     Context("None", NoData, Append(history, "cancel")))
      [] OTHER -> Fallback(entities, data, history)

handle_conversation(cc, user_id, message) ==
    LET context == get_context(cc, user_id)
        state == context.state
        data == context.data
        history == context.history
        text == StrStrip(message)
        found == IF text \in DOMAIN Extracted THEN Extracted[text]
                 ELSE detect_intent_and_entities(text)
    IN  CASE state = "awaiting_token_buy" -> AwaitingToken("buy", text, data, history)
          [] state = "awaiting_network_buy" -> AwaitingNetwork("buy", text, data, history)
          [] state = "awaiting_amount_buy" -> AwaitingAmount("buy", ParseFloat(text), data, history)
          [] state = "confirm_buy" -> Confirm("buy", data, history)
          [] state = "awaiting_token_sell" -> AwaitingToken("sell", text, data, history)
          [] state = "awaiting_network_sell" -> AwaitingNetwork("sell", text, data, history)
          [] state = "awaiting_amount_sell" -> AwaitingAmount("sell", ParseFloat(text), data, history)
          [] state = "confirm_sell" -> Confirm("sell", data, history)
          [] OTHER -> Intent(found.intent, found.entities, data, history)

(* handle_conversation after fetch_rate_with_retry returned rate (NoNumber *)
(* is None).  t holds the locals of the suspended call; response is the    *)
(* recipient registry's answer and postOk whether the admin post succeeds. *)
Resume(t, rate, response, postOk) ==
    LET action == IF t.cont \in {"amount_buy", "direct_buy"} THEN "buy" ELSE "sell"
        data == t.data
        history == t.history
    IN  IF ~Truthy(rate)
        THEN Done(IF t.cont = "price" THEN "price_failed" ELSE "rate_failed", data)
        ELSE CASE t.cont \in {"amount_buy", "amount_sell"} ->
                 LET token == data["token"]
                     network == DictGet(data, "network", None)
                     recipient == fetch_recipient_address(token, network, response)
                 IN  [Updated("order_summary", data,
                              Context("confirm_" \o action, data,
                                      Append(history, action \o "_amount")))
                      EXCEPT !.reply = [Summary(action, token, network, t.amount,
                                                rate.val, recipient, postOk)
                                        EXCEPT !.lookup = response]]
               [] t.cont \in {"direct_buy", "direct_sell"} ->
                 IF t.token = USDT /\ t.network = None
                 THEN Updated("ask_network", data,
                              Context("awaiting_network_" \o action,
                                      Dict2("token", t.token, "amount", t.amount),
                                      Append(history, action)))
                 ELSE LET recipient == fetch_recipient_address(t.token, t.network, response)
                      IN  [Updated("order_summary", data,
                                   Context("confirm_" \o action,
                                           Dict3("token", t.token, "amount", t.amount,
                                                 "network", t.network),
                                           Append(history, action \o "_direct")))
                           EXCEPT !.reply = [Summary(action, t.token, t.network,
                                                     t.amount, rate.val, recipient,
                                                     postOk)
                                             EXCEPT !.lookup = response]]
               [] OTHER ->      \* "price"
                 [Updated("price", data,
                          Context("None", data, Append(history, "price")))
                  EXCEPT !.reply.rate = rate]

----------------------------------------------------------------------------
(* Rate limiter *)

\* pipe.zremrangebyscore(key, 0, now - 60)
ZRemRangeByScore(zset, lo, hi) == {t \in zset : ~(lo <= t /\ t <= hi)}

\* pipe.zadd(key, {str(now): now}): the member is the timestamp's text
ZAdd(zset, t) == zset \cup {t}

\* pipe.zrangebyscore(key, now - 60, now)
ZRangeByScore(zset, lo, hi) == {t \in zset : lo <= t /\ t <= hi}

(* rate_limit(user_id, ip) on the key's sorted set at time t.  executed    *)
(* says whether the pipeline block ran: "async with                        *)
(* redis_client.pipeline()" and "await pipe.execute()" raise when redis    *)
(* does not answer, and with the synchronous client that                   *)
(* redis.Redis.from_url builds (line 78) the statement raises on entry,    *)
(* its Pipeline having no __aenter__.  A raise leaves the key as it was    *)
(* and leaves rate_limit without a return value.                           *)
rate_limit(zset, t, executed) ==
    LET stored == ZAdd(ZRemRangeByScore(zset, 0, t - WINDOW), t)
        requests == ZRangeByScore(stored, t - WINDOW, t)
    IN  IF ~executed
        THEN [raised |-> TRUE, zset |-> zset, count |-> 0, admitted |-> FALSE]
        ELSE [raised |-> FALSE, zset |-> stored, count |-> Cardinality(requests),
              admitted |-> Cardinality(requests) < THRESHOLD]    \* len(requests) < 10

NoAdmission ==
    [user |-> 0, at |-> 0, raised |-> FALSE, count |-> 0, admitted |-> TRUE,
     earlier |-> 0, aged |-> FALSE]

----------------------------------------------------------------------------
(* Quote service *)

\* a redis string key with a time to live: its value and when it expires
Entry(val, exp) == [val |-> val, exp |-> exp]

\* redis drops a key when its time to live is over
Expire(cache, t) == [k \in {x \in DOMAIN cache : cache[x].exp > t} |-> cache[k]]

\* redis_client.setex(key, ttl, value) at time t
SetEx(cache, key, ttl, value, t) ==
    [k \in DOMAIN cache \cup {key} |-> IF k = key THEN Entry(value, t + ttl) ELSE cache[k]]

\* the exchange's answers: the text of "lastPrice", or a failure
LastPrices == {P_5_00, <<"1", ".", "2", "3">>}

\* "exception": the request raises (network error, HTTP error status);
\* "retcode": retCode is not 0; "malformed": the body lacks result.list[0].lastPrice
UpstreamResponses ==
    {[status |-> "ok", lastPrice |-> p] : p \in LastPrices}
    \cup {[status |-> s, lastPrice |-> <<>>] : s \in {"exception", "retcode", "malformed"}}

\* attempt counts the iterations of fetch_rate_with_retry done, calls the
\* ticker requests they sent and good those the ticker answered with a price
NoTurn ==
    [user |-> 0, cont |-> "none", token |-> None, amount |-> NoNumber, network |-> None,
     data |-> NoData, history |-> <<>>, attempt |-> 0, calls |-> 0, good |-> 0]

(* One call of fetch_crypto_rates_bybit(token) at time t.  cacheRead and   *)
(* cacheWrite say whether redis answers the get and the setex; upstream is *)
(* the ticker's lastPrice text or a failure of the request.                 *)
(* The result says whether an exception left the call (raised), what it   *)
(* returned (rate, NoNumber for None), whether it sent the ticker request  *)
(* (called), whether the ticker answered with a price (priced), the cache  *)
(* it leaves and when the returned rate was fetched.                       *)
fetch_crypto_rates_bybit(cache, token, t, cacheRead, upstream, cacheWrite) ==
    LET priced == upstream.status = "ok" /\ ParseFloat(upstream.lastPrice).kind # "none"
    IN  IF ~cacheRead
        THEN [raised |-> TRUE, rate |-> NoNumber, called |-> FALSE, priced |-> FALSE,
              cache |-> cache, fetchedAt |-> 0]
        ELSE IF token \in DOMAIN cache      \* if cached_rate
        THEN [raised |-> FALSE, rate |-> ParseFloat(cache[token].val), called |-> FALSE,
              priced |-> FALSE, cache |-> cache,
              fetchedAt |-> cache[token].exp - CACHE_TTL]
        ELSE IF ~priced \/ ~cacheWrite
        THEN [raised |-> FALSE, rate |-> NoNumber, called |-> TRUE, priced |-> priced,
              cache |-> cache, fetchedAt |-> 0]
        ELSE LET rate == ParseFloat(upstream.lastPrice)
             IN  [raised |-> FALSE, rate |-> rate, called |-> TRUE, priced |-> TRUE,
                  cache |-> SetEx(cache, token, CACHE_TTL, FloatRepr(rate.val), t),
                  fetchedAt |-> t]

----------------------------------------------------------------------------
(* Button callbacks *)

RECURSIVE StrContains(_, _)
StrContains(s, sub) ==
    IF Len(s) < Len(sub) THEN FALSE
    ELSE StrStartsWith(s, sub) \/ StrContains(Tail(s), sub)

\* the text of an intent taken from callback data, as it enters state names
IntentName(w) == IF w = W_buy THEN "buy" ELSE IF w = W_sell THEN "sell" ELSE "other"

quick_action_callback(cc, user_id, query_data) ==
    LET parts == StrSplit(query_data, "_")
        action == parts[2]
        context_data == get_context(cc, user_id)
        history == context_data.history
        data == context_data.data
    IN  CASE action \in {W_buy, W_sell} ->
                 \* escape_markdown(...) + InlineKeyboardMarkup(...) raises TypeError
                 RaisedAfterUpdate(data, Context("awaiting_token_" \o IntentName(action),
                                                 NoData,
                                                 Append(history, IntentName(action))))
          [] action \in {<<"b", "u", "y", "_", "u", "s", "d", "t">>,
                         <<"s", "e", "l", "l", "_", "u", "s", "d", "t">>} ->
                 LET intent == IF StrContains(query_data, W_buy) THEN "buy" ELSE "sell"
                 IN  RaisedAfterUpdate(data, Context("awaiting_network_" \o intent,
                                                     Dict1("token", USDT),
                                                     Append(history, intent)))
          [] StrStartsWith(action, <<"n", "e", "t", "w", "o", "r", "k", "_">>) ->
                 LET network == StrUpper(parts[2])
                     intent == IntentName(parts[3])
                     data1 == DictSet(DictSet(data, "token", USDT), "network", network)
                 IN  Updated("ask_amount", data1,
                             Context("awaiting_amount_" \o intent, data1,
                                     Append(history, intent \o "_network")))
          [] action = <<"b", "a", "l", "a", "n", "c", "e">> ->
                 Raised(data)     \* fetch_ton_balance is not defined
          [] action = <<"c", "a", "n", "c", "e", "l", "_", "a", "c", "t", "i", "o", "n">> ->
                 Updated("canceled", data,
                         Context("None", NoData, Append(history, "cancel")))
          [] action \in {<<"m", "o", "r", "e", "_", "b", "u", "y">>,
                         <<"m", "o", "r", "e", "_", "s", "e", "l", "l">>} ->
                 LET intent == IF action = <<"m", "o", "r", "e", "_", "b", "u", "y">>
                               THEN "buy" ELSE "sell"
                 IN  RaisedAfterUpdate(data,
                                       Context("awaiting_token_" \o intent,
                                               Dict1("token", DictGet(data, "token", None)),
                                               Append(history, intent)))
          [] OTHER -> Done("none", data)

----------------------------------------------------------------------------
(* State *)

(* What fetch_rate_with_retry did in a handler invocation: kind is "none"  *)
(* (it was not called), "value" (it returned the rate val), "unavailable"  *)
(* (it returned None) or "fault" (an exception left it).                   *)
Quote(kind, val, calls, good) == [kind |-> kind, val |-> val, calls |-> calls, good |-> good]

NoQuote == Quote("none", NoNumber, 0, 0)

ReplyOf(u, r, quote) ==
    [user |-> u, quote |-> quote,
     body |-> CASE r.next = "done" -> r.reply
                [] r.next = "raise" -> Plain("exception")
                [] OTHER -> Plain("pending")]

Said(u, kind) == [user |-> u, quote |-> NoQuote, body |-> Plain(kind)]

Init ==
    /\ now = 0
    /\ rate_keys = [u \in Users |-> {}]
    /\ rate_cache = <<>>
    /\ conversation_context = <<>>
    /\ turn = NoTurn
    /\ quoted = <<>>
    /\ asked = [u \in Users |-> <<>>]
    /\ admission = NoAdmission
    /\ reply = Said(0, "none")

StateOf(u) == get_context(conversation_context, u).state

DataOf(u) == get_context(conversation_context, u).data

HistoryOf(u) == get_context(conversation_context, u).history

\* what a handler invocation's result does to the session store
Store(cc, u, r) ==
    IF r.update THEN update_context(cc, u, r.context)
    ELSE IF u \in DOMAIN cc /\ r.data # cc[u].data THEN [cc EXCEPT ![u].data = r.data]
    ELSE cc

\* handle_conversation(user_id, message) runs until it returns or suspends
Begin(u, message) ==
    \E r \in {handle_conversation(conversation_context, u, message)} :
        /\ conversation_context' = Store(conversation_context, u, r)
        /\ reply' = ReplyOf(u, r, NoQuote)
        /\ turn' = IF r.next = "fetch"
                   THEN [user |-> u, cont |-> r.cont, token |-> r.token,
                         amount |-> r.amount, network |-> r.network, data |-> r.data,
                         history |-> HistoryOf(u), attempt |-> 0, calls |-> 0,
                         good |-> 0]
                   ELSE NoTurn

\* a direct call of handle_conversation
Converse(u, message) ==
    /\ turn = NoTurn
    /\ Len(HistoryOf(u)) < MaxHist
    /\ Begin(u, message)
    /\ UNCHANGED <<now, rate_keys, rate_cache, quoted, asked, admission>>

Min(S) == CHOOSE x \in S : \A y \in S : x <= y

(* A rate_limit call of key u and what it returned.  earlier is the number *)
(* of the key's calls that ran in the 60 seconds before this one; aged     *)
(* says that the key's previous call was rejected and that the oldest      *)
(* timestamp recorded for the key is more than 60 seconds old.             *)
Limited(u, checked) ==
    /\ rate_keys' = [rate_keys EXCEPT ![u] = checked.zset]
    /\ asked' = IF checked.raised THEN asked
                ELSE [asked EXCEPT ![u] =
                          Append(SelectSeq(@, LAMBDA c : c.at > now - WINDOW),
                                 [at |-> now, admitted |-> checked.admitted])]
    /\ admission' =
           [user |-> u, at |-> now, raised |-> checked.raised, count |-> checked.count,
            admitted |-> checked.admitted,
            earlier |-> Len(SelectSeq(asked[u], LAMBDA c : c.at > now - WINDOW)),
            aged |-> /\ admission.user = u
                     /\ ~admission.raised
                     /\ ~admission.admitted
                     /\ rate_keys[u] # {}
                     /\ Min(rate_keys[u]) < now - WINDOW]

\* two calls of rate_limit read different clock values
ClockMoved == admission.user = 0 \/ admission.at < now

\* message_handler with handle_conversation called for a rejected message too
MessageHandlerConversing(u, message, executed) ==
    \E checked \in {rate_limit(rate_keys[u], now, executed)} :
        /\ turn = NoTurn
        /\ ClockMoved
        /\ Len(HistoryOf(u)) < MaxHist
        /\ Limited(u, checked)
        /\ IF checked.raised
           THEN /\ reply' = Said(u, "exception")
                /\ UNCHANGED <<conversation_context, turn>>
           ELSE Begin(u, message)
        /\ UNCHANGED <<now, rate_cache, quoted>>

\* message_handler
MessageHandler(u, message, executed) ==
    \E checked \in {rate_limit(rate_keys[u], now, executed)} :
        /\ turn = NoTurn
        /\ ClockMoved
        /\ Len(HistoryOf(u)) < MaxHist
        /\ Limited(u, checked)
        /\ IF checked.raised
           THEN /\ reply' = Said(u, "exception")
                /\ UNCHANGED <<conversation_context, turn>>
           ELSE IF checked.admitted
           THEN Begin(u, message)
           ELSE /\ reply' = Said(u, "too_fast")
                /\ UNCHANGED <<conversation_context, turn>>
        /\ UNCHANGED <<now, rate_cache, quoted>>

\* the /start command handler, as far as it touches this state
StartCommand(u, executed) ==
    \E checked \in {rate_limit(rate_keys[u], now, executed)} :
        /\ turn = NoTurn
        /\ Limited(u, checked)
        /\ reply' = Said(u, IF checked.raised THEN "exception"
                            ELSE IF checked.admitted THEN "welcome" ELSE "slow_down")
        /\ UNCHANGED <<now, rate_cache, conversation_context, turn, quoted>>

\* quick_action_callback
Callback(u, query_data) ==
    \E r \in {quick_action_callback(conversation_context, u, query_data)} :
        /\ turn = NoTurn
        /\ Len(HistoryOf(u)) < MaxHist
        /\ conversation_context' = Store(conversation_context, u, r)
        /\ reply' = ReplyOf(u, r, NoQuote)
        /\ UNCHANGED <<now, rate_keys, rate_cache, turn, quoted, asked, admission>>

(* One iteration of the loop of fetch_rate_with_retry, for the suspended   *)
(* call: an attempt; on None the sleep, and after the last attempt the     *)
(* return of None.  When the fetch returns, the caller runs to its end.    *)
FetchAttempt(limit, cacheRead, upstream, cacheWrite, response, postOk) ==
    /\ turn # NoTurn
    /\ \E f \in {fetch_crypto_rates_bybit(rate_cache, turn.token, now, cacheRead, upstream,
                                          cacheWrite)} :
       \E r \in {Resume(turn, f.rate, response, postOk)} :
       \E calls \in {turn.calls + (IF f.called THEN 1 ELSE 0)} :
       \E good \in {turn.good + (IF f.called /\ f.priced THEN 1 ELSE 0)} :
           /\ UNCHANGED <<rate_keys, asked, admission>>
           /\ IF f.raised
              THEN /\ turn' = NoTurn
                   /\ reply' = [user |-> turn.user,
                                quote |-> Quote("fault", NoNumber, calls, good),
                                body |-> Plain("exception")]
                   /\ UNCHANGED <<now, rate_cache, quoted, conversation_context>>
              ELSE IF f.rate.kind # "none"
              THEN /\ turn' = NoTurn
                   /\ rate_cache' = f.cache
                   /\ quoted' = [k \in DOMAIN quoted \cup {turn.token} |->
                                     IF k = turn.token
                                     THEN [value |-> f.rate, fetchedAt |-> f.fetchedAt]
                                     ELSE quoted[k]]
                   /\ conversation_context' = Store(conversation_context, turn.user, r)
                   /\ reply' = ReplyOf(turn.user, r, Quote("value", f.rate, calls, good))
                   /\ UNCHANGED now
              ELSE /\ now + RETRY_DELAY <= limit
                   /\ now' = now + RETRY_DELAY
                   /\ rate_cache' = Expire(rate_cache, now')
                   /\ UNCHANGED quoted
                   /\ IF turn.attempt + 1 >= RETRIES
                      THEN /\ turn' = NoTurn
                           /\ conversation_context' =
                                  Store(conversation_context, turn.user, r)
                           /\ reply' = ReplyOf(turn.user, r,
                                               Quote("unavailable", NoNumber, calls, good))
                      ELSE /\ turn' = [turn EXCEPT !.attempt = @ + 1, !.calls = calls,
                                                   !.good = good]
                           /\ UNCHANGED <<conversation_context, reply>>

(* What the collaborators do during one attempt: whether redis answers    *)
(* the get and the setex, the ticker's response, the recipient registry's  *)
(* response and whether the admin post succeeds.  Outcomes that cannot be  *)
(* told apart (the setex after a failed request, say) are listed once.     *)
World(cacheRead, upstream, cacheWrite, response, postOk) ==
    [cacheRead |-> cacheRead, upstream |-> upstream, cacheWrite |-> cacheWrite,
     response |-> response, postOk |-> postOk]

AnyResponse == CHOOSE r \in RecipientResponses : r.status = "error"

Worlds(upstreams, responses) ==
    {World(FALSE, CHOOSE up \in upstreams : TRUE, TRUE, AnyResponse, TRUE)}
    \cup {World(TRUE, up, w, AnyResponse, TRUE) :
             up \in upstreams, w \in {FALSE}}
    \cup {World(TRUE, up, TRUE, r, p) :
             up \in upstreams, r \in responses, p \in BOOLEAN}

Attempt(limit, worlds) ==
    \E w \in worlds :
        FetchAttempt(limit, w.cacheRead, w.upstream, w.cacheWrite, w.response, w.postOk)

\* time passes between two handler invocations
Tick(d, limit) ==
    /\ turn = NoTurn
    /\ now + d <= limit
    /\ now' = now + d
    /\ rate_cache' = Expire(rate_cache, now')
    /\ UNCHANGED <<rate_keys, conversation_context, turn, quoted, asked, admission, reply>>

----------------------------------------------------------------------------
(* The dialogue engine: handle_conversation and quick_action_callback      *)
(* called for any user with any input, one invocation at a time.           *)

Text(u) == \E message \in Texts : Converse(u, message)

Button(u) == \E query_data \in CallbackData : Callback(u, query_data)

\* the dialogue specification's collaborators: one price, one kind of failure
DialogueWorlds ==
    Worlds({[status |-> "ok", lastPrice |-> P_5_00], [status |-> "exception", lastPrice |-> <<>>]},
           RecipientResponses)

Next ==
    \/ \E u \in Users : Text(u)
    \/ \E u \in Users : Button(u)
    \/ Attempt(MaxClock, DialogueWorlds)

Spec == Init /\ [][Next]_vars

----------------------------------------------------------------------------
(* The rate limiter: /start commands of one key as the clock moves on.     *)

Start(u) == ClockMoved /\ \E executed \in BOOLEAN : StartCommand(u, executed)

NextRate ==
    \/ \E u \in Users : Start(u)
    \/ Tick(RateTick, MaxRateClock)

SpecRate == Init /\ [][NextRate]_vars

----------------------------------------------------------------------------
(* The quote service: messages that ask for a quote, the attempts of the   *)
(* fetch under every behaviour of redis and of the ticker, and the clock.  *)


Ask(u) == \E message \in {T_rate_ton, T_purchase_2_ton} : Converse(u, message)

QuoteWorlds == Worlds(UpstreamResponses, {AnyResponse})

NextQuote ==
    \/ \E u \in Users : Ask(u)
    \/ Attempt(MaxQuoteClock, QuoteWorlds)
    \/ Tick(QuoteTick, MaxQuoteClock)

SpecQuote == Init /\ [][NextQuote]_vars

----------------------------------------------------------------------------
(* Properties of the dialogue engine, checked under Spec *)

AwaitingTokenStates == {"awaiting_token_buy", "awaiting_token_sell"}

AwaitingAmountStates == {"awaiting_amount_buy", "awaiting_amount_sell"}

ConfirmStates == {"confirm_buy", "confirm_sell"}

Positive(x) == x.kind = "num" /\ x.val > 0

(* C1: a session is in confirm_buy or confirm_sell only with a supported   *)
(* token slot and an amount slot greater than 0, and an order summary is   *)
(* sent only in a turn whose quote fetch returned a price and whose        *)
(* recipient address is not the sentinel "default_recipient".              *)
C1_OrdersAreComplete ==
    /\ \A u \in DOMAIN conversation_context :
           StateOf(u) \in ConfirmStates =>
               /\ DictGet(DataOf(u), "token", None) \in SUPPORTED_TOKENS
               /\ Positive(DictGet(DataOf(u), "amount", NoNumber))
    /\ reply.body.kind = "order_summary" =>
           /\ StateOf(reply.user) \in ConfirmStates
           /\ reply.quote.kind = "value"
           /\ reply.body.recipient # DEFAULT_RECIPIENT

(* C2: the text "buy 100 ton" received with state None starts the fetch of *)
(* the TON quote for a direct buy of 100, and a direct buy whose quote     *)
(* fetch returns a price ends in confirm_buy with an order summary (or,    *)
(* for USDT without a network, with the question for the network).         *)
C2_BuyInOneTurn ==
    [][/\ \A u \in Users :
              (StateOf(u) = "None" /\ Converse(u, T_buy_100_ton)) =>
                  /\ turn'.cont = "direct_buy"
                  /\ turn'.token = TON
                  /\ turn'.amount = Num(10000)
       /\ (turn.cont = "direct_buy" /\ turn' = NoTurn /\ reply'.quote.kind = "value"
           /\ Truthy(reply'.quote.val)) =>
              \/ /\ get_context(conversation_context', turn.user).state = "confirm_buy"
                 /\ reply'.body.kind = "order_summary"
              \/ turn.token = USDT /\ turn.network = None]_vars

(* C3: the text "cancel" received in any state other than None leaves the  *)
(* session with state None and no slots and is answered by the             *)
(* cancellation acknowledgment.                                            *)
C3_CancelFromAnyState ==
    [][\A u \in Users :
           (StateOf(u) # "None" /\ Converse(u, T_cancel)) =>
               /\ get_context(conversation_context', u).state = "None"
               /\ get_context(conversation_context', u).data = NoData
               /\ reply'.body.kind = "canceled"]_vars

(* C4: in awaiting_token_buy or awaiting_token_sell, a message whose       *)
(* stripped, upper-cased text is not a supported token leaves every        *)
(* session as it was (state, slots and history), suspends nothing and is   *)
(* answered by the re-prompt; so any number of such messages leaves the    *)
(* session unchanged.                                                      *)
C4_UnknownTokenKeepsSession ==
    [][\A u \in Users, message \in Texts :
           (/\ StateOf(u) \in AwaitingTokenStates
            /\ StrUpper(StrStrip(message)) \notin SUPPORTED_TOKENS
            /\ Converse(u, message)) =>
               /\ conversation_context' = conversation_context
               /\ turn' = NoTurn
               /\ reply'.user = u
               /\ reply'.body.kind = "unknown_token"]_vars

\* C4's case: the re-prompt was sent to a user whose session awaits a token
C4_Reprompted ==
    /\ reply.body.kind = "unknown_token"
    /\ StateOf(reply.user) \in AwaitingTokenStates

(* C5: a session that awaits the amount or the confirmation with token     *)
(* USDT has its network slot set.                                          *)
C5_UsdtHasNetwork ==
    \A u \in DOMAIN conversation_context :
        (/\ StateOf(u) \in AwaitingAmountStates \cup ConfirmStates
         /\ DictGet(DataOf(u), "token", None) = USDT) =>
            DictGet(DataOf(u), "network", None) # None

----------------------------------------------------------------------------
(* Properties of the rate limiter, checked under SpecRate *)

(* C6: a rate_limit call that returns is admitted when fewer than 10       *)
(* earlier calls of its key ran in the 60 seconds before it, and rejected  *)
(* when exactly 10 did: the first 10 calls within a window are admitted    *)
(* and the 11th is rejected.                                               *)
C6_TenPerWindow ==
    (admission.user # 0 /\ ~admission.raised) =>
        /\ admission.earlier < THRESHOLD => admission.admitted
        /\ admission.earlier = THRESHOLD => ~admission.admitted

(* C7: once a key's call has been rejected, the first call that finds the  *)
(* oldest recorded timestamp of the key more than 60 seconds old, and that *)
(* returns, is admitted.                                                   *)
C7_AdmittedOnceOldestAged ==
    (admission.aged /\ ~admission.raised) => admission.admitted

----------------------------------------------------------------------------
(* Properties of the quote service, checked under SpecQuote *)

\* the step is one call of fetch_crypto_rates_bybit for the suspended turn
IsAttempt == turn # NoTurn /\ turn' # turn

\* the ticker requests sent so far by the suspended turn, after the step
CallsAfter == IF turn' = NoTurn THEN reply'.quote.calls ELSE turn'.calls

(* C8: when fetch_rate_with_retry has returned a price for a token, a      *)
(* later fetch_crypto_rates_bybit call for the token made less than 60     *)
(* seconds after that price was fetched sends no ticker request and        *)
(* returns the same value; one made 60 seconds after it or later sends a   *)
(* ticker request, and what it returns was fetched at the time of the call.*)
C8_CachedWithinTtl ==
    [][(IsAttempt /\ turn.token \in DOMAIN quoted) =>
           IF now < quoted[turn.token].fetchedAt + CACHE_TTL
           THEN /\ CallsAfter = turn.calls
                /\ turn' = NoTurn
                /\ reply'.quote.kind = "value"
                /\ reply'.quote.val = quoted[turn.token].value
           ELSE /\ CallsAfter = turn.calls + 1
                /\ (turn' = NoTurn /\ reply'.quote.kind = "value") =>
                       quoted'[turn.token].fetchedAt = now]_vars

(* C9: fetch_rate_with_retry sends at most 3 ticker requests; once the     *)
(* ticker has answered with a price it returns that price and sends no     *)
(* further request; and after a request that failed it goes on to the next *)
(* until 3 have been sent, then returns None.                              *)
C9_RetryUntilFirstSuccess ==
    reply.quote.kind # "none" =>
        /\ reply.quote.calls <= RETRIES
        /\ reply.quote.good >= 1 => (reply.quote.kind = "value" /\ reply.quote.good = 1)
        /\ (reply.quote.calls >= 1 /\ reply.quote.good = 0) =>
               (reply.quote.kind = "unavailable" /\ reply.quote.calls = RETRIES)

(* C10: fetch_rate_with_retry ends by returning a price or None, None only *)
(* after 3 ticker requests; no exception leaves it.                        *)
C10_NoFaultEscapes ==
    /\ reply.quote.kind \in {"none", "value", "unavailable"}
    /\ reply.quote.kind = "unavailable" => reply.quote.calls = RETRIES

----------------------------------------------------------------------------
(* Properties of the address resolver, checked under Spec *)

\* the registry raised, or answered without an address, in the reply's turn
LookupFailed ==
    /\ reply.body.kind = "order_summary"
    /\ \/ reply.body.lookup.status = "error"
       \/ reply.body.lookup.status = "ok" /\ reply.body.lookup.address = NoAddress

(* C11: when the recipient lookup raises or answers without an address,    *)
(* fetch_recipient_address returns the FALLBACK_ADDRESSES entry of the     *)
(* token (of USDT and its network) if the table has one, and the sentinel  *)
(* "default_recipient" only if it has none.                                *)
C11_FallbackWhenLookupFails ==
    LookupFailed =>
        LET key == RecipientKey(reply.body.token, reply.body.network)
        IN  /\ key \in FallbackKeys =>
                   /\ reply.body.recipient = FallbackAddress(key)
                   /\ reply.body.recipient # DEFAULT_RECIPIENT
            /\ key \notin FallbackKeys => reply.body.recipient = DEFAULT_RECIPIENT

\* C11's case: the lookup failed for USDT on a network that has an entry
C11_FallbackUsed ==
    /\ LookupFailed
    /\ reply.body.token = USDT
    /\ RecipientKey(reply.body.token, reply.body.network) \in FallbackKeys

----------------------------------------------------------------------------
(* Properties of the order summary, checked under Spec *)

(* C12: an order summary shows amount * rate + 0.15 for a buy and          *)
(* amount * rate - 0.15 for a sell, whether the amount came in its own     *)
(* turn or in the first message; and "Sell 50 TON" received with state     *)
(* None fetches the TON quote for a direct sell of 50 and, at the rate     *)
(* 5.00, ends in confirm_sell with a summary showing 50, TON and 249.85.   *)
C12_FeeAppliedToFiat ==
    [][/\ reply'.body.kind = "order_summary" =>
              /\ get_context(conversation_context', reply'.user).state \in ConfirmStates
              /\ reply'.body.amount.kind = "num" =>
                     reply'.body.fiat =
                         Num(reply'.body.amount.val * reply'.body.rate.val
                             + (IF get_context(conversation_context', reply'.user).state
                                       = "confirm_buy"
                                THEN FEE ELSE -FEE))
       /\ \A u \in Users :
              (StateOf(u) = "None" /\ Converse(u, T_sell_50_ton)) =>
                  /\ turn'.cont = "direct_sell"
                  /\ turn'.token = TON
                  /\ turn'.amount = Num(5000)
       /\ (/\ turn.cont = "direct_sell" /\ turn.token = TON /\ turn.amount = Num(5000)
           /\ turn' = NoTurn
           /\ reply'.quote.kind = "value" /\ reply'.quote.val = Num(500)) =>
              /\ get_context(conversation_context', turn.user).state = "confirm_sell"
              /\ reply'.body.kind = "order_summary"
              /\ reply'.body.token = TON
              /\ reply'.body.amount = Num(5000)
              /\ reply'.body.fiat = Num(2498500)]_vars

\* C12's case: the summary of the direct sell of 50 TON at 5.00
C12_Sold50Ton ==
    /\ reply.body.kind = "order_summary"
    /\ StateOf(reply.user) = "confirm_sell"
    /\ reply.body.token = TON
    /\ reply.body.amount = Num(5000)
    /\ reply.body.rate = Num(500)
    /\ reply.body.fiat = Num(2498500)

----------------------------------------------------------------------------
(* Rate-limited messages: message_handler called with texts that start a   *)
(* sale and answer the token question, at the clock values of SpecRate.    *)

MessageTexts == {<<"s", "e", "l", "l">>, <<"f", "o", "o">>}

Message(u) ==
    \E message \in MessageTexts, executed \in BOOLEAN : MessageHandler(u, message, executed)

NextMessage ==
    \/ \E u \in Users : Message(u)
    \/ Tick(RateTick, MaxRateClock)

SpecMessage == Init /\ [][NextMessage]_vars

(* C13: a message whose rate_limit call returns False leaves every session *)
(* (state, slots, history) as it was, starts no quote fetch and is         *)
(* answered by the throttling notice alone.                                *)
C13_RejectedMessageKeepsSession ==
    [][\A u \in Users, message \in MessageTexts :
           (MessageHandler(u, message, TRUE) /\ ~admission'.admitted) =>
               /\ conversation_context' = conversation_context
               /\ turn' = turn
               /\ reply' = Said(u, "too_fast")]_vars

\* C13's case: a message of a user who is selling was rejected
C13_Throttled ==
    /\ reply.body.kind = "too_fast"
    /\ ~admission.raised /\ ~admission.admitted
    /\ StateOf(reply.user) = "awaiting_token_sell"

----------------------------------------------------------------------------
(* Overlapping turns of one user.  handle_conversation reads the session   *)
(* at its start and holds no lock; it is suspended in asyncio.sleep        *)
(* between two attempts of fetch_rate_with_retry.  Overlap is a second     *)
(* call for the same user made during that sleep, as an application that   *)
(* dispatches updates concurrently makes it (the default dispatch of       *)
(* Application.builder() handles one update at a time).  The second call   *)
(* is one that returns without suspending and without assigning into the   *)
(* session's dict, so the two calls share no object.                       *)

Overlap(u, message) ==
    /\ turn # NoTurn
    /\ turn.user = u
    /\ turn.attempt >= 1
    /\ Len(HistoryOf(u)) < MaxHist
    /\ \E r \in {handle_conversation(conversation_context, u, message)} :
           /\ r.next # "fetch"
           /\ r.data = DataOf(u)
           /\ conversation_context' = Store(conversation_context, u, r)
           /\ reply' = ReplyOf(u, r, NoQuote)
    /\ UNCHANGED <<now, rate_keys, rate_cache, turn, quoted, asked, admission>>

OverlapTexts == {T_sell_50_ton, <<"s", "e", "l", "l">>}

NextOverlap ==
    \/ \E u \in Users, message \in OverlapTexts : Converse(u, message)
    \/ \E u \in Users, message \in OverlapTexts : Overlap(u, message)
    \/ Attempt(MaxClock, DialogueWorlds)

SpecOverlap == Init /\ [][NextOverlap]_vars

----------------------------------------------------------------------------
(* Bursts: /start commands of one key, several of which may read the same  *)
(* clock value, datetime.now() having a finite resolution.                 *)

MaxBurst == 12
BurstTick == 30
MaxBurstClock == 60

Burst(u) ==
    /\ Len(asked[u]) < MaxBurst
    /\ \E executed \in BOOLEAN : StartCommand(u, executed)

NextBurst ==
    \/ \E u \in Users : Burst(u)
    \/ Tick(BurstTick, MaxBurstClock)

SpecBurst == Init /\ [][NextBurst]_vars

(* C15: every rate_limit call that returns is counted, its count being one *)
(* more than the number of the key's calls of the preceding 60 seconds,    *)
(* and at most 10 calls of a key are admitted within 60 seconds, also when *)
(* calls read the same clock value.                                        *)
C15_EveryCheckCounted ==
    /\ (admission.user # 0 /\ ~admission.raised) =>
           admission.count = admission.earlier + 1
    /\ \A u \in Users :
           Cardinality({i \in DOMAIN asked[u] : asked[u][i].admitted}) <= THRESHOLD

----------------------------------------------------------------------------
(* The extractor alone: detect_intent_and_entities called on every message *)
(* of up to MaxWords words of a vocabulary, one call in a behaviour, the   *)
(* value it returned kept in reply.                                        *)

MaxWords == 3

Vocabulary ==
    {<<"p", "u", "r", "c", "h", "a", "s", "e">>, <<"S", "e", "l", "l">>,
     <<"c", "h", "e", "c", "k">>, T_cancel, <<"2">>, <<"5", "0">>, <<"t", "o", "n">>,
     <<"f", "o", "o">>}

RECURSIVE JoinWords(_)
JoinWords(ws) ==
    IF Len(ws) = 1 THEN ws[1] ELSE ws[1] \o <<" ">> \o JoinWords(Tail(ws))

ExtractTexts ==
    {JoinWords(ws) : ws \in UNION {[1..n -> Vocabulary] : n \in 1..MaxWords}}

Extract(message) ==
    /\ reply.body.kind = "none"
    /\ reply' = [user |-> 0, quote |-> NoQuote, body |-> Plain("extracted"),
                 text |-> message, found |-> detect_intent_and_entities(message)]
    /\ UNCHANGED <<now, rate_keys, rate_cache, conversation_context, turn, quoted, asked,
                   admission>>

NextExtract == \E message \in ExtractTexts : Extract(message)

SpecExtract == Init /\ [][NextExtract]_vars

\* the order of the intents as the specification lists them
IntentOrder ==
    <<"buy", "sell", "connect_wallet", "balance", "help", "price", "chart", "greeting",
      "thanks", "exit", "about", "time", "cancel">>

\* the words of the lower-cased text that was extracted last
ExtractedDoc == Tokenize(StrLower(StrStrip(reply.text)))

(* C16: detect_intent_and_entities returns the first intent, in the order  *)
(* buy, sell, connect_wallet, balance, help, price, chart, greeting,       *)
(* thanks, exit, about, time, cancel, of which some synonym is a word of   *)
(* the lower-cased text, and "conversation" when there is none; the text   *)
(* with its words in the reverse order has the same intent.                *)
C16_FirstIntentInFixedOrder ==
    reply.body.kind = "extracted" =>
        LET doc == ExtractedDoc
            synonymsOf(name) ==
                SYNONYMS[CHOOSE i \in DOMAIN SYNONYMS : SYNONYMS[i].intent = name].synonyms
            matching == {i \in DOMAIN IntentOrder :
                            \E k \in DOMAIN doc : doc[k] \in synonymsOf(IntentOrder[i])}
            reversed == [k \in 1..Len(doc) |-> doc[Len(doc) + 1 - k]]
        IN  /\ \A i \in DOMAIN IntentOrder :
                   \E j \in DOMAIN SYNONYMS : SYNONYMS[j].intent = IntentOrder[i]
            /\ reply.found.intent =
                   IF matching = {} THEN "conversation" ELSE IntentOrder[Min(matching)]
            /\ detect_intent_and_entities(JoinWords(reversed)).intent = reply.found.intent

\* C16's case: a text whose first word is a synonym of cancel has the intent sell
C16_SellBeforeCancel ==
    /\ reply.body.kind = "extracted"
    /\ ExtractedDoc[1] = T_cancel
    /\ reply.found.intent = "sell"

(* C17: the amount that detect_intent_and_entities returns is the first    *)
(* word of the text that parses as a number, and None when no word does.   *)
C17_FirstNumberIsAmount ==
    reply.body.kind = "extracted" =>
        LET doc == ExtractedDoc
            numbers == {k \in DOMAIN doc : ParseFloat(doc[k]).kind = "num"}
        IN  reply.found.entities.amount =
                IF numbers = {} THEN NoNumber ELSE ParseFloat(doc[Min(numbers)])

----------------------------------------------------------------------------
(* High-value sells: both places that call notify_admin (lines 355 and     *)
(* 443), with amounts on either side of 100, under every behaviour of the  *)
(* collaborators, the admin post included.                                 *)

NotifyTexts ==
    {<<"s", "e", "l", "l", " ", "t", "o", "n">>,
     <<"1", "5", "0">>,
     <<"5", "0">>,
     <<"s", "e", "l", "l", " ", "1", "5", "0", " ", "t", "o", "n">>}

NextNotify ==
    \/ \E u \in Users, message \in NotifyTexts : Converse(u, message)
    \/ Attempt(MaxClock, DialogueWorlds)

SpecNotify == Init /\ [][NextNotify]_vars

(* C18: when the admin post of a sell above 100 fails, the call still      *)
(* stores the state confirm_sell and returns the order summary that it     *)
(* returns, from the same session, rate and registry answer, when the      *)
(* post succeeds.                                                          *)
C18_FailedPostKeepsReply ==
    [][(turn # NoTurn /\ turn' = NoTurn /\ reply'.body.notify = "failed") =>
           \E posted \in {Resume(turn, reply'.quote.val, reply'.body.lookup, TRUE)} :
               /\ posted.reply.kind = "order_summary"
               /\ posted.reply.notify = "sent"
               /\ reply'.body = [posted.reply EXCEPT !.notify = "failed"]
               /\ conversation_context' =
                      Store(conversation_context, turn.user, posted)
               /\ get_context(conversation_context', turn.user).state = "confirm_sell"]_vars

\* C18's case: a sell of 150 was summarised although the admin post failed
C18_SummarisedUnposted ==
    /\ reply.body.kind = "order_summary"
    /\ reply.body.notify = "failed"
    /\ reply.body.amount = Num(15000)
    /\ StateOf(reply.user) = "confirm_sell"

----------------------------------------------------------------------------
(* Two users: messages and button presses of either user in any order,    *)
(* one handler invocation at a time, with the quote fetch succeeding or    *)
(* failing and the clock of the retries.                                   *)

TwoUsers == {1, 2}

SharedTexts ==
    {<<"s", "e", "l", "l", " ", "t", "o", "n">>,
     <<"5", "0">>,
     T_cancel}

SharedCallbackData ==
    {<<"q", "u", "i", "c", "k", "_", "b", "u", "y">>,
     <<"c", "a", "n", "c", "e", "l", "_", "a", "c", "t", "i", "o", "n">>}

NextShared ==
    \/ \E u \in TwoUsers, message \in SharedTexts : Converse(u, message)
    \/ \E u \in TwoUsers, query_data \in SharedCallbackData : Callback(u, query_data)
    \/ Attempt(MaxClock, Worlds({[status |-> "ok", lastPrice |-> P_5_00],
                                 [status |-> "exception", lastPrice |-> <<>>]},
                                {AnyResponse}))

SpecShared == Init /\ [][NextShared]_vars

(* C19: a step of a call made for user u (the user of the suspended call   *)
(* when one resumes, the user replied to otherwise) leaves every other     *)
(* user's session as it was: stored or not, and its state, data and        *)
(* history.                                                                *)
C19_OtherSessionsUnchanged ==
    [][\A v \in TwoUsers :
           v # (IF turn # NoTurn THEN turn.user ELSE reply'.user) =>
               /\ (v \in DOMAIN conversation_context') = (v \in DOMAIN conversation_context)
               /\ get_context(conversation_context', v) =
                      get_context(conversation_context, v)]_vars

\* C19's case: user 2 was answered while user 1's order waits for its confirmation
C19_TwoSessions ==
    /\ reply.user = 2
    /\ StateOf(2) = "awaiting_token_buy"
    /\ StateOf(1) = "confirm_sell"
    /\ DataOf(1) # NoData

----------------------------------------------------------------------------
(* C20: in the state confirm_buy or confirm_sell, handle_conversation      *)
(* called with any text stores the state None with the empty dict as data  *)
(* and returns the message that the transaction was started, without       *)
(* fetching a quote.                                                       *)
C20_AnyTextConfirms ==
    [][\A u \in Users :
           (turn = NoTurn /\ StateOf(u) \in ConfirmStates) =>
               \A message \in Texts :
                   Converse(u, message) =>
                       /\ get_context(conversation_context', u).state = "None"
                       /\ get_context(conversation_context', u).data = NoData
                       /\ reply' = Said(u, "launched")
                       /\ turn' = NoTurn]_vars

\* C20's case: a text sent in confirm_sell started the transaction
C20_Launched ==
    /\ reply.body.kind = "launched"
    /\ StateOf(reply.user) = "None"
    /\ DataOf(reply.user) = NoData
    /\ HistoryOf(reply.user) # <<>>
    /\ HistoryOf(reply.user)[Len(HistoryOf(reply.user))] = "sell_confirmed"

----------------------------------------------------------------------------
\* the session of u keeps its state and its token and network slots in this step
KeptPrompt(u) ==
    /\ get_context(conversation_context', u).state = StateOf(u)
    /\ DictGet(get_context(conversation_context', u).data, "token", None) =
           DictGet(DataOf(u), "token", None)
    /\ DictGet(get_context(conversation_context', u).data, "network", None) =
           DictGet(DataOf(u), "network", None)

(* C21: in awaiting_amount_buy or awaiting_amount_sell, a call whose text  *)
(* is not a number greater than 0 returns with the state and the token     *)
(* and network slots as they were; a call that fetched a quote ends in     *)
(* confirm_buy or confirm_sell when its amount is greater than 0 and the   *)
(* fetch returned a rate, and with the state and the token and network     *)
(* slots as they were otherwise.                                           *)
C21_InvalidAmountKeepsPrompt ==
    [][\A u \in Users :
           StateOf(u) \in AwaitingAmountStates =>
               /\ turn = NoTurn =>
                      \A message \in Texts :
                          (Converse(u, message) /\ ~Positive(ParseFloat(StrStrip(message)))) =>
                              KeptPrompt(u) /\ turn' = NoTurn
               /\ (turn # NoTurn /\ turn.user = u /\ turn' = NoTurn) =>
                      IF Positive(turn.amount) /\ Truthy(reply'.quote.val)
                      THEN get_context(conversation_context', u).state =
                               IF StateOf(u) = "awaiting_amount_buy"
                               THEN "confirm_buy" ELSE "confirm_sell"
                      ELSE KeptPrompt(u)]_vars

----------------------------------------------------------------------------
\* SUPPORTED_TOKENS["USDT"]
USDT_NETWORKS ==
    {<<"E", "R", "C", "2", "0">>, <<"T", "R", "C", "2", "0">>, <<"T", "O", "N">>}

AwaitingNetworkStates == {"awaiting_network_buy", "awaiting_network_sell"}

(* C22: in awaiting_network_buy or awaiting_network_sell, a call whose     *)
(* text is not ERC20, TRC20 or TON in any case returns with the state as   *)
(* it was and no network slot; and after every step the network slot of    *)
(* every session is None, absent or one of ERC20, TRC20 and TON.           *)
C22_UnknownNetworkReprompted ==
    [][\A u \in Users :
           /\ DictGet(get_context(conversation_context', u).data, "network", None)
                  \in {None} \cup USDT_NETWORKS
           /\ (turn = NoTurn /\ StateOf(u) \in AwaitingNetworkStates) =>
                  \A message \in Texts :
                      (Converse(u, message)
                       /\ StrUpper(StrStrip(message)) \notin USDT_NETWORKS) =>
                          /\ get_context(conversation_context', u).state = StateOf(u)
                          /\ "network" \notin DOMAIN get_context(conversation_context', u).data]_vars

----------------------------------------------------------------------------
(* C23: the admin post is attempted in a step exactly when that step       *)
(* confirms a sell of more than 100, taking the session from confirm_sell  *)
(* to None; the step that quotes a sell and sends its order summary        *)
(* attempts no post.                                                       *)
C23_NotifiedOnCompletion ==
    [][\A u \in Users :
           (reply' # reply /\ reply'.user = u /\ reply'.body.notify # "none")
           <=> /\ turn = NoTurn
               /\ StateOf(u) = "confirm_sell"
               /\ get_context(conversation_context', u).state = "None"
               /\ reply'.body.kind = "launched"
               /\ DictGet(DataOf(u), "amount", NoNumber).kind = "num"
               /\ DictGet(DataOf(u), "amount", NoNumber).val > HIGH_VALUE]_vars

----------------------------------------------------------------------------
(* C24: quick_action_callback called with the data "cancel_action", in     *)
(* any state, stores the state None with the empty dict as data and the    *)
(* history extended by "cancel".                                           *)
C24_CancelButtonResets ==
    [][\A u \in Users :
           (turn = NoTurn
            /\ Callback(u, <<"c", "a", "n", "c", "e", "l", "_", "a", "c", "t", "i", "o", "n">>)) =>
               /\ u \in DOMAIN conversation_context'
               /\ get_context(conversation_context', u) =
                      Context("None", NoData, Append(HistoryOf(u), "cancel"))]_vars

----------------------------------------------------------------------------
(* The rate limiter with repeated clock values: /start commands of one key *)
(* as the clock moves on, of which up to MaxRepeats within 60 seconds read *)
(* the clock value of the call before them.                                *)

MaxRepeats == 1

Repeats(u) ==
    Len(asked[u]) - Cardinality({asked[u][i].at : i \in DOMAIN asked[u]})

Restart(u) ==
    /\ ClockMoved \/ Repeats(u) < MaxRepeats
    /\ \E executed \in BOOLEAN : StartCommand(u, executed)

NextRepeat ==
    \/ \E u \in Users : Restart(u)
    \/ Tick(RateTick, MaxRateClock)

SpecRepeat == Init /\ [][NextRepeat]_vars

(* C25: a rate_limit call that returns leaves the key without timestamps   *)
(* of more than 60 seconds ago and with its own timestamp; and when the    *)
(* key's previous call was rejected and at least 9 calls of the key,       *)
(* admitted or rejected, ran in the 60 seconds before this one, the call   *)
(* is rejected.                                                            *)
C25_RejectedWhileRateLasts ==
    [][\A u \in Users :
           (admission' # admission /\ admission'.user = u /\ ~admission'.raised) =>
               /\ now \in rate_keys'[u]
               /\ \A t \in rate_keys'[u] : t > now - WINDOW
               /\ (/\ admission.user = u
                   /\ ~admission.raised
                   /\ ~admission.admitted
                   /\ admission'.earlier >= THRESHOLD - 1) => ~admission'.admitted]_vars

----------------------------------------------------------------------------
(* The handlers as the application registers them (lines 695-699): text    *)
(* messages through message_handler, button presses through                *)
(* quick_action_callback, with the quote fetch of a suspended call (the    *)
(* ticker answering a price) and the clock.                                *)

NextInbound ==
    \/ \E u \in Users, message \in {W_sell, T_sell_50_ton}, executed \in BOOLEAN :
           MessageHandler(u, message, executed)
    \/ \E u \in Users :
           \E query_data \in {<<"q", "u", "i", "c", "k", "_", "b", "u", "y">>,
                               <<"n", "e", "t", "w", "o", "r", "k", "_", "e", "r", "c",
                                 "2", "0", "_", "b", "u", "y">>} :
               Callback(u, query_data)
    \/ Attempt(MaxClock, Worlds({[status |-> "ok", lastPrice |-> P_5_00]}, {AnyResponse}))
    \/ Tick(BurstTick, MaxBurstClock)

SpecInbound == Init /\ [][NextInbound]_vars

(* C26: a step that changes the session store belongs to a handler         *)
(* invocation whose rate_limit call returned True for that user: either    *)
(* the step makes that call itself, or it resumes the suspended call of    *)
(* the message that was admitted last.                                     *)
C26_ChangesAreAdmitted ==
    [][conversation_context' # conversation_context =>
           IF turn = NoTurn
           THEN /\ asked' # asked
                /\ admission'.user = reply'.user
                /\ ~admission'.raised
                /\ admission'.admitted
           ELSE /\ admission.user = turn.user
                /\ ~admission.raised
                /\ admission.admitted]_vars

----------------------------------------------------------------------------
(* C27: a session whose state is None has the empty dict as data.          *)
C27_IdleHasNoSlots ==
    \A u \in Users : StateOf(u) = "None" => DataOf(u) = NoData

\* C27's case: a session is idle again after an order that had filled its slots
C27_IdleAfterOrder ==
    \E u \in DOMAIN conversation_context :
        /\ StateOf(u) = "None"
        /\ DataOf(u) = NoData
        /\ \E i \in DOMAIN HistoryOf(u) : HistoryOf(u)[i] = "sell_direct"
        /\ HistoryOf(u)[Len(HistoryOf(u))] = "conversation"

----------------------------------------------------------------------------
(* C28: a session in awaiting_network_*, awaiting_amount_* or confirm_*    *)
(* has a token slot that holds a key of SUPPORTED_TOKENS, and USDT in      *)
(* awaiting_network_*; so data["token"] at lines 286 and 338 raises no     *)
(* KeyError.                                                               *)
C28_TokenSlotIsSet ==
    \A u \in Users :
        /\ StateOf(u) \in AwaitingNetworkStates \cup AwaitingAmountStates \cup ConfirmStates =>
               /\ "token" \in DOMAIN DataOf(u)
               /\ DataOf(u)["token"] \in SUPPORTED_TOKENS
        /\ StateOf(u) \in AwaitingNetworkStates => DictGet(DataOf(u), "token", None) = USDT

\* C28's case: the fallback after a sell asks for the amount of a token named alone
C28_SellMoreHasToken ==
    /\ reply.body.kind = "sell_more"
    /\ StateOf(reply.user) = "awaiting_amount_sell"
    /\ DataOf(reply.user) = Dict1("token", USDT)

----------------------------------------------------------------------------
(* C29: every call of handle_conversation, in every state and for every    *)
(* text, returns a reply: no exception leaves it, neither before its       *)
(* quote fetch nor when it resumes; and a step in which an exception does   *)
(* leave it does not change the session store.                             *)
C29_TurnsReturn ==
    [][/\ \A u \in Users :
              turn = NoTurn =>
                  \A message \in Texts :
                      Converse(u, message) =>
                          /\ reply'.body.kind # "exception"
                          /\ reply'.body.kind = "exception" =>
                                 conversation_context' = conversation_context
       /\ (turn # NoTurn /\ turn' = NoTurn) =>
              /\ reply'.body.kind # "exception"
              /\ reply'.body.kind = "exception" =>
                     conversation_context' = conversation_context]_vars

----------------------------------------------------------------------------
SellStates ==
    {"awaiting_token_sell", "awaiting_network_sell", "awaiting_amount_sell", "confirm_sell"}

(* C30: a call of handle_conversation made in the state None stores one    *)
(* of the states awaiting_token_sell, awaiting_network_sell,               *)
(* awaiting_amount_sell and confirm_sell, before its quote fetch or when   *)
(* it resumes, only when detect_intent_and_entities returned the intent    *)
(* sell for its text.                                                      *)
C30_SellFlowNeedsSellIntent ==
    [][\A u \in Users :
           (StateOf(u) = "None"
            /\ get_context(conversation_context', u).state \in SellStates) =>
               IF turn = NoTurn
               THEN \A message \in Texts :
                        Converse(u, message) =>
                            detect_intent_and_entities(StrStrip(message)).intent = "sell"
               ELSE turn.user = u /\ turn.cont = "direct_sell"]_vars

====
